---- MODULE Spec2Model ----
(***************************************************************************)
(* RustPrelude (src/src/main.rs): one run of `main`.                       *)
(*                                                                         *)
(* The run resolves the scan root, configures an `ignore::WalkBuilder`,    *)
(* walks the tree twice (unfiltered, filtered), reconciles the two walks   *)
(* into `ignored_files`, collects and sorts the regular files, renders the *)
(* tree, reads the files, formats the prompt and delivers it to the output *)
(* file or to the clipboard.                                               *)
(*                                                                         *)
(* File names are byte strings (sequences of 0..255), a path is a sequence *)
(* of names (its components), as Rust's PathBuf sees them on Unix.         *)
(***************************************************************************)
EXTENDS Integers, Sequences, FiniteSets, TLC

VARIABLES
    fs,               \* the environment: scanned tree, ignore files, git state
    args,             \* Args: git_only, case_sensitive, output_file
    pc,               \* position of main
    walker,           \* the WalkBuilder `walker` of lines 59-82
    all_entries,      \* Vec of the unfiltered walk (root-relative paths)
    filtered_entries, \* Vec of the filtered walk
    ignored_files,    \* Vec<PathBuf>
    files,            \* Vec<PathBuf>
    tree,             \* String built by build_tree, as its lines
    concatenated,     \* String of the read loop, as its sections
    prompt,           \* the formatted prompt
    out_file,         \* contents of the -F target
    clipboard,        \* contents of the system clipboard
    clip_sets,        \* number of successful set_contents calls
    result            \* how main ended

vars == <<fs, args, pc, walker, all_entries, filtered_entries, ignored_files,
          files, tree, concatenated, prompt, out_file, clipboard, clip_sets,
          result>>

(***************************************************************************)
(* Bounds of the model.                                                    *)
(***************************************************************************)
\* at most this many entries below the scan root
MaxEntries == 3
\* at most this many files of the tree cannot be read as text
MaxUnreadable == 1

(***************************************************************************)
(* Bytes and names.                                                        *)
(***************************************************************************)
Slash == <<47>>
N_a   == <<97>>              \* "a"
N_b   == <<98>>              \* "b"
N_at  == <<97, 46, 116>>     \* "a.t"
N_AT  == <<65, 46, 84>>      \* "A.T"
N_h   == <<46, 104>>         \* ".h"
N_ff  == <<255>>             \* a name that is not valid UTF-8

RECURSIVE CmpBytes(_, _)
\* Ordering of two byte strings: -1, 0, 1 (lexicographic, shorter prefix first)
CmpBytes(x, y) ==
    IF x = <<>> /\ y = <<>> THEN 0
    ELSE IF x = <<>> THEN -1
    ELSE IF y = <<>> THEN 1
    ELSE IF Head(x) < Head(y) THEN -1
    ELSE IF Head(x) > Head(y) THEN 1
    ELSE CmpBytes(Tail(x), Tail(y))

RECURSIVE CmpPath(_, _)
\* Ord for Path (files.sort()): component by component, each component bytewise
CmpPath(p, q) ==
    IF p = <<>> /\ q = <<>> THEN 0
    ELSE IF p = <<>> THEN -1
    ELSE IF q = <<>> THEN 1
    ELSE LET c == CmpBytes(Head(p), Head(q))
         IN  IF c # 0 THEN c ELSE CmpPath(Tail(p), Tail(q))

RECURSIVE PathBytes(_)
\* the bytes of a relative path: its components joined by '/'
PathBytes(p) ==
    IF p = <<>> THEN <<>>
    ELSE IF Len(p) = 1 THEN p[1]
    ELSE p[1] \o Slash \o PathBytes(Tail(p))

(***************************************************************************)
(* UTF-8: Path::to_str (strict) and Path::display (lossy).                 *)
(***************************************************************************)
\* width of the scalar a lead byte announces, 0 for a byte that cannot lead
Utf8Width(b) ==
    IF b < 128 THEN 1
    ELSE IF b >= 194 /\ b <= 223 THEN 2
    ELSE IF b >= 224 /\ b <= 239 THEN 3
    ELSE IF b >= 240 /\ b <= 244 THEN 4
    ELSE 0

\* whether b1 may follow the lead byte b0
Utf8SecondOk(b0, b1) ==
    IF b0 = 224 THEN b1 >= 160 /\ b1 <= 191
    ELSE IF b0 = 237 THEN b1 >= 128 /\ b1 <= 159
    ELSE IF b0 = 240 THEN b1 >= 144 /\ b1 <= 191
    ELSE IF b0 = 244 THEN b1 >= 128 /\ b1 <= 143
    ELSE b1 >= 128 /\ b1 <= 191

Utf8Cont(b) == b >= 128 /\ b <= 191

\* how many bytes from position i on match the scalar s[i] announces
Utf8Matched(s, i) ==
    LET w == Utf8Width(s[i]) IN
    IF w = 0 THEN 0
    ELSE IF w = 1 THEN 1
    ELSE IF ~(i + 1 <= Len(s) /\ Utf8SecondOk(s[i], s[i + 1])) THEN 1
    ELSE IF w = 2 THEN 2
    ELSE IF ~(i + 2 <= Len(s) /\ Utf8Cont(s[i + 2])) THEN 2
    ELSE IF w = 3 THEN 3
    ELSE IF ~(i + 3 <= Len(s) /\ Utf8Cont(s[i + 3])) THEN 3
    ELSE 4

RECURSIVE Utf8ValidFrom(_, _)
Utf8ValidFrom(s, i) ==
    IF i > Len(s) THEN TRUE
    ELSE LET w == Utf8Width(s[i]) IN
         w # 0 /\ Utf8Matched(s, i) = w /\ Utf8ValidFrom(s, i + w)

\* entry.to_str(): Some(path) exactly when the path's bytes are valid UTF-8
ToStrIsSome(p) == Utf8ValidFrom(PathBytes(p), 1)

Replacement == <<239, 191, 189>>   \* U+FFFD

RECURSIVE LossyFrom(_, _)
LossyFrom(s, i) ==
    IF i > Len(s) THEN <<>>
    ELSE LET w == Utf8Width(s[i])
             m == Utf8Matched(s, i)
         IN  IF w # 0 /\ m = w
             THEN SubSeq(s, i, i + w - 1) \o LossyFrom(s, i + w)
             ELSE Replacement \o LossyFrom(s, i + (IF m = 0 THEN 1 ELSE m))

\* file.display(): the path's bytes, invalid sequences replaced by U+FFFD
Display(p) == LossyFrom(PathBytes(p), 1)

(***************************************************************************)
(* The environment: the scanned tree, the git rule sources that apply to   *)
(* it, and the two ignore files of the current working directory.          *)
(* The tree lies in a git repository; its .git directory and .gitignore    *)
(* file are hidden entries, skipped by both walks, and are left out of the *)
(* entries. A glob is a literal file name without '/', which the ignore    *)
(* crate matches against the last component of a path at any depth.        *)
(***************************************************************************)
Root == <<>>

\* the entries a tree may hold: a path is a directory or a regular file
DirCandidates  == {<<N_a>>}
FileCandidates == {<<N_a, N_b>>, <<N_at>>, <<N_b>>, <<N_h>>, <<N_ff>>}
Universe == DirCandidates \cup FileCandidates

Range(s) == {s[i] : i \in 1..Len(s)}

Parent(p) == SubSeq(p, 1, Len(p) - 1)

\* entry.file_type().map_or(false, |ft| ft.is_file())
IsFile(p) == p \in FileCandidates

Trees ==
    {t \in SUBSET Universe :
        /\ Cardinality(t) <= MaxEntries
        /\ \A p \in t : Len(p) > 1 => Parent(p) \in t}

Ign(name) == [neg |-> FALSE, name |-> name]
Neg(name) == [neg |-> TRUE, name |-> name]

NoFile == [exists |-> FALSE, patterns |-> <<>>]
IgnoreFile(pats) == [exists |-> TRUE, patterns |-> pats]

NoRules ==
    [git_ignore_rules |-> <<>>, git_exclude_rules |-> <<>>,
     git_global_rules |-> <<>>, cwd_gitignore |-> NoFile,
     cwd_preludeignore |-> NoFile]

\* the rule sources a run may meet
RuleConfigs ==
    { NoRules,
      [NoRules EXCEPT !.git_ignore_rules = <<Ign(N_AT)>>],
      [NoRules EXCEPT !.git_ignore_rules = <<Ign(N_at)>>],
      [NoRules EXCEPT !.git_exclude_rules = <<Ign(N_b)>>],
      [NoRules EXCEPT !.git_global_rules = <<Ign(N_at)>>],
      [NoRules EXCEPT !.cwd_gitignore = IgnoreFile(<<Ign(N_a)>>)],
      [NoRules EXCEPT !.cwd_gitignore = IgnoreFile(<<Ign(N_AT)>>)],
      [NoRules EXCEPT !.cwd_preludeignore = IgnoreFile(<<Ign(N_at)>>)],
      [NoRules EXCEPT !.cwd_preludeignore = IgnoreFile(<<Ign(N_ff)>>)],
      [NoRules EXCEPT !.cwd_gitignore = IgnoreFile(<<Ign(N_a)>>),
                      !.cwd_preludeignore = IgnoreFile(<<Neg(N_a)>>)],
      [NoRules EXCEPT !.git_ignore_rules = <<Ign(N_a)>>,
                      !.cwd_preludeignore = IgnoreFile(<<Neg(N_a)>>)] }

(***************************************************************************)
(* ignore::WalkBuilder as main uses it.                                    *)
(***************************************************************************)
\* WalkBuilder::new(&root_path): the standard filters are all enabled
NewWalkBuilder ==
    [hidden |-> TRUE, git_ignore |-> TRUE, git_global |-> TRUE,
     git_exclude |-> TRUE, ignore_case_insensitive |-> FALSE,
     explicit_ignores |-> <<>>]

Fold(b) == IF b >= 65 /\ b <= 90 THEN b + 32 ELSE b

FoldBytes(s) == [i \in 1..Len(s) |-> Fold(s[i])]

GlobMatches(pat, name, ci) ==
    IF ci THEN FoldBytes(pat.name) = FoldBytes(name) ELSE pat.name = name

RECURSIVE MatchRules(_, _, _)
\* one rule source on a file name: the last matching pattern decides
MatchRules(rules, name, ci) ==
    IF rules = <<>> THEN "none"
    ELSE LET last == rules[Len(rules)] IN
         IF GlobMatches(last, name, ci)
         THEN (IF last.neg THEN "whitelist" ELSE "ignore")
         ELSE MatchRules(SubSeq(rules, 1, Len(rules) - 1), name, ci)

RECURSIVE MatchExplicit(_, _)
\* the add_ignore files, the one added last first; each was compiled when it
\* was added (lines 64 and 70, before line 82), hence case-sensitively
MatchExplicit(explicit, name) ==
    IF explicit = <<>> THEN "none"
    ELSE LET m == MatchRules(explicit[Len(explicit)], name, FALSE) IN
         IF m # "none" THEN m
         ELSE MatchExplicit(SubSeq(explicit, 1, Len(explicit) - 1), name)

OrMatch(m1, m2) == IF m1 # "none" THEN m1 ELSE m2

\* precedence of the rule sources: .gitignore, .git/info/exclude, the global
\* gitignore, then the explicitly added ignore files
MatchedIgnore(cfg, name) ==
    LET ci   == cfg.ignore_case_insensitive
        m_gi == IF cfg.git_ignore
                THEN MatchRules(fs.git_ignore_rules, name, ci) ELSE "none"
        m_ex == IF cfg.git_exclude
                THEN MatchRules(fs.git_exclude_rules, name, ci) ELSE "none"
        m_gl == IF cfg.git_global
                THEN MatchRules(fs.git_global_rules, name, ci) ELSE "none"
    IN  OrMatch(m_gi, OrMatch(m_ex, OrMatch(m_gl,
            MatchExplicit(cfg.explicit_ignores, name))))

IsHidden(name) == name # <<>> /\ name[1] = 46

\* whether the walk drops an entry below the root (and does not descend)
SkipEntry(cfg, p) ==
    LET name == p[Len(p)]
        m    == MatchedIgnore(cfg, name)
    IN  \/ m = "ignore"
        \/ m = "none" /\ cfg.hidden /\ IsHidden(name)

\* the root-relative paths a walk yields: the root, and every entry that is
\* not dropped and lies in no dropped directory
WalkSet(cfg) ==
    {Root} \cup
    {p \in fs.entries : \A k \in 1..Len(p) : ~SkipEntry(cfg, SubSeq(p, 1, k))}

Children(S, d) ==
    {p \in S : Len(p) = Len(d) + 1 /\ SubSeq(p, 1, Len(d)) = d}

RECURSIVE DfsFrom(_, _), DfsList(_, _)
\* depth-first orders of the subtree at d, a directory listed in any order
DfsFrom(S, d) == {<<d>> \o t : t \in DfsList(S, Children(S, d))}

DfsList(S, C) ==
    IF C = {} THEN {<<>>}
    ELSE UNION {{h \o t : h \in DfsFrom(S, c), t \in DfsList(S, C \ {c})} : c \in C}

\* the sequences a walk may yield: entry.path().strip_prefix(&root_path)
WalkOrders(cfg) == DfsFrom(WalkSet(cfg), Root)

(***************************************************************************)
(* The steps of main.                                                      *)
(***************************************************************************)
\* lines 58-82: the filtered walker
ConfiguredWalker ==
    LET w0 == NewWalkBuilder
        w1 == IF fs.cwd_gitignore.exists
              THEN [w0 EXCEPT !.explicit_ignores =
                                  Append(@, fs.cwd_gitignore.patterns)]
              ELSE w0
        w2 == IF fs.cwd_preludeignore.exists
              THEN [w1 EXCEPT !.explicit_ignores =
                                  Append(@, fs.cwd_preludeignore.patterns)]
              ELSE w1
        w3 == IF args.git_only
              THEN [w2 EXCEPT !.git_ignore = TRUE, !.git_global = TRUE,
                              !.git_exclude = TRUE]
              ELSE w2
    IN  [w3 EXCEPT !.ignore_case_insensitive = ~args.case_sensitive]

\* lines 94-98: the unfiltered walker
UnfilteredWalker ==
    [NewWalkBuilder EXCEPT !.git_ignore = args.git_only,
                           !.git_global = args.git_only,
                           !.git_exclude = args.git_only,
                           !.ignore_case_insensitive = ~args.case_sensitive]

RECURSIVE IgnoredOf(_, _)
\* lines 110-123: the entries of `all` that equal no entry of `filtered`
IgnoredOf(all, filtered) ==
    IF all = <<>> THEN <<>>
    ELSE IF \E i \in 1..Len(filtered) : Head(all) = filtered[i]
         THEN IgnoredOf(Tail(all), filtered)
         ELSE <<Head(all)>> \o IgnoredOf(Tail(all), filtered)

RECURSIVE CollectFiles(_)
\* lines 126-133: the regular files of the filtered walk, in walk order
CollectFiles(entries) ==
    IF entries = <<>> THEN <<>>
    ELSE IF IsFile(Head(entries))
         THEN <<Head(entries)>> \o CollectFiles(Tail(entries))
         ELSE CollectFiles(Tail(entries))

\* InsertPath without the comparison: p always goes first
InsertPathFront(s, p) == <<p>> \o s

RECURSIVE InsertPath(_, _)
\* p put into the sorted s, after the elements that are not greater (stable)
InsertPath(s, p) ==
    IF s = <<>> THEN <<p>>
    ELSE IF CmpPath(p, Head(s)) < 0 THEN <<p>> \o s
    ELSE <<Head(s)>> \o InsertPath(Tail(s), p)

\* files.sort() left out: the list stays in walk order
SortPathsUnsorted(s) == s

RECURSIVE SortPaths(_)
\* line 143: files.sort(), a stable sort by Ord for PathBuf
SortPaths(s) ==
    IF s = <<>> THEN <<>>
    ELSE InsertPath(SortPaths(SubSeq(s, 1, Len(s) - 1)), s[Len(s)])

TreeDot == <<46>>                                               \* "."
TreePrefix == <<226, 148, 156, 226, 148, 128, 226, 148, 128, 32>>  \* "├── "

RECURSIVE TreeLines(_)
TreeLines(entries) ==
    IF entries = <<>> THEN <<>>
    ELSE IF ToStrIsSome(Head(entries))
         THEN <<TreePrefix \o PathBytes(Head(entries))>> \o TreeLines(Tail(entries))
         ELSE TreeLines(Tail(entries))

\* build_tree with to_string_lossy in place of to_str: no entry is skipped
build_tree_lossy(entries) ==
    <<TreeDot>> \o [i \in 1..Len(entries) |-> TreePrefix \o Display(entries[i])]

\* lines 35-43: the tree string, as its lines
build_tree(entries) == <<TreeDot>> \o TreeLines(entries)

\* fs::read_to_string(root_path.join(file)) is Ok
ReadOk(file) == file \in fs.entries /\ file \notin fs.unreadable

\* lines 156-160: one section; the content is named by the file it is read from
Section(file) == [header |-> Display(file), content |-> file]

RECURSIVE ReadAllAborting(_)
\* the read loop with `?` on read_to_string: the first failed read ends it
ReadAllAborting(fl) ==
    IF fl = <<>> THEN <<>>
    ELSE IF ReadOk(Head(fl))
         THEN <<Section(Head(fl))>> \o ReadAllAborting(Tail(fl))
         ELSE <<>>

RECURSIVE ReadAll(_)
\* lines 150-164: the sections of the files that could be read, in order
ReadAll(fl) ==
    IF fl = <<>> THEN <<>>
    ELSE IF ReadOk(Head(fl))
         THEN <<Section(Head(fl))>> \o ReadAll(Tail(fl))
         ELSE ReadAll(Tail(fl))

\* lines 168-174: format! puts the tree and the sections between fixed text
FormatPrompt(t, c) == [tree |-> t, concatenated |-> c]

NoText == [tree |-> <<>>, concatenated |-> <<>>]

Exit(how) == pc' = "exit" /\ result' = how

\* line 55: fs::canonicalize(&root_path)?
Canonicalize ==
    /\ pc = "canonicalize"
    /\ \/ pc' = "configure" /\ UNCHANGED result
       \/ Exit("err_root")
    /\ UNCHANGED <<fs, args, walker, all_entries, filtered_entries,
                   ignored_files, files, tree, concatenated, prompt, out_file,
                   clipboard, clip_sets>>

\* lines 58-85
ConfigureWalker ==
    /\ pc = "configure"
    /\ walker' = ConfiguredWalker
    /\ pc' = "walk_all"
    /\ UNCHANGED <<fs, args, all_entries, filtered_entries, ignored_files,
                   files, tree, concatenated, prompt, out_file, clipboard,
                   clip_sets, result>>

\* lines 94-101: collect::<Result<Vec<_>>>()? ends the run on the first Err
WalkAll ==
    /\ pc = "walk_all"
    /\ \/ /\ \E o \in WalkOrders(UnfilteredWalker) : all_entries' = o
          /\ pc' = "walk_filtered"
          /\ UNCHANGED result
       \/ /\ Exit("err_walk")
          /\ UNCHANGED all_entries
    /\ UNCHANGED <<fs, args, walker, filtered_entries, ignored_files, files,
                   tree, concatenated, prompt, out_file, clipboard, clip_sets>>

\* lines 104-107
WalkFiltered ==
    /\ pc = "walk_filtered"
    /\ \/ /\ \E o \in WalkOrders(walker) : filtered_entries' = o
          /\ pc' = "reconcile"
          /\ UNCHANGED result
       \/ /\ Exit("err_walk")
          /\ UNCHANGED filtered_entries
    /\ UNCHANGED <<fs, args, walker, all_entries, ignored_files, files, tree,
                   concatenated, prompt, out_file, clipboard, clip_sets>>

\* lines 110-123; the loop consumes all_entries
Reconcile ==
    /\ pc = "reconcile"
    /\ ignored_files' = ignored_files \o IgnoredOf(all_entries, filtered_entries)
    /\ all_entries' = <<>>
    /\ pc' = "collect"
    /\ UNCHANGED <<fs, args, walker, filtered_entries, files, tree,
                   concatenated, prompt, out_file, clipboard, clip_sets, result>>

\* lines 126-133; the loop consumes filtered_entries
Collect ==
    /\ pc = "collect"
    /\ files' = files \o CollectFiles(filtered_entries)
    /\ filtered_entries' = <<>>
    /\ pc' = "sort"
    /\ UNCHANGED <<fs, args, walker, all_entries, ignored_files, tree,
                   concatenated, prompt, out_file, clipboard, clip_sets, result>>

\* line 143
SortFiles ==
    /\ pc = "sort"
    /\ files' = SortPaths(files)
    /\ pc' = "build_tree"
    /\ UNCHANGED <<fs, args, walker, all_entries, filtered_entries,
                   ignored_files, tree, concatenated, prompt, out_file,
                   clipboard, clip_sets, result>>

\* line 146
BuildTree ==
    /\ pc = "build_tree"
    /\ tree' = build_tree(files)
    /\ pc' = "read"
    /\ UNCHANGED <<fs, args, walker, all_entries, filtered_entries,
                   ignored_files, files, concatenated, prompt, out_file,
                   clipboard, clip_sets, result>>

\* lines 150-164
ReadFiles ==
    /\ pc = "read"
    /\ concatenated' = concatenated \o ReadAll(files)
    /\ pc' = "format"
    /\ UNCHANGED <<fs, args, walker, all_entries, filtered_entries,
                   ignored_files, files, tree, prompt, out_file, clipboard,
                   clip_sets, result>>

\* lines 168-174
BuildPrompt ==
    /\ pc = "format"
    /\ prompt' = FormatPrompt(tree, concatenated)
    /\ pc' = "save"
    /\ UNCHANGED <<fs, args, walker, all_entries, filtered_entries,
                   ignored_files, files, tree, concatenated, out_file,
                   clipboard, clip_sets, result>>

\* whether line 176 takes the file branch
SavesToFile == args.output_file = "Some"

\* line 183 without its condition
CopiesAlways == TRUE

\* whether line 183 takes the clipboard branch
CopiesToClipboard == args.output_file = "None"

\* lines 176-180: fs::write(..)? ; a failed write may have truncated the file
SaveToFile ==
    /\ pc = "save"
    /\ IF SavesToFile
       THEN \/ /\ out_file' = [state |-> "written", text |-> prompt]
               /\ pc' = "copy"
               /\ UNCHANGED result
            \/ /\ out_file' \in {out_file, [state |-> "truncated", text |-> NoText]}
               /\ Exit("err_write")
       ELSE /\ pc' = "copy"
            /\ UNCHANGED <<out_file, result>>
    /\ UNCHANGED <<fs, args, walker, all_entries, filtered_entries,
                   ignored_files, files, tree, concatenated, prompt, clipboard,
                   clip_sets>>

\* lines 183-190: ClipboardProvider::new().unwrap(), then set_contents
CopyToClipboard ==
    /\ pc = "copy"
    /\ IF CopiesToClipboard
       THEN \/ /\ Exit("panic")                      \* new() is Err: unwrap panics
               /\ UNCHANGED <<clipboard, clip_sets>>
            \/ /\ clipboard' = [state |-> "set", text |-> prompt]
               /\ clip_sets' = clip_sets + 1
               /\ pc' = "finish"
               /\ UNCHANGED result
            \/ /\ pc' = "finish"                     \* set_contents is Err: logged
               /\ UNCHANGED <<clipboard, clip_sets, result>>
       ELSE /\ pc' = "finish"
            /\ UNCHANGED <<clipboard, clip_sets, result>>
    /\ UNCHANGED <<fs, args, walker, all_entries, filtered_entries,
                   ignored_files, files, tree, concatenated, prompt, out_file>>

\* lines 192-194: Ok(())
Finish ==
    /\ pc = "finish"
    /\ Exit("ok")
    /\ UNCHANGED <<fs, args, walker, all_entries, filtered_entries,
                   ignored_files, files, tree, concatenated, prompt, out_file,
                   clipboard, clip_sets>>

\* the regular files of a tree
FilesOf(t) == {p \in t : IsFile(p)}

\* the file git tracks, when the tree holds it; every other file is untracked
TrackedCandidates == {<<N_at>>}

Init ==
    /\ \E t \in Trees, rc \in RuleConfigs :
         \E u \in SUBSET FilesOf(t) :
            /\ Cardinality(u) <= MaxUnreadable
            /\ fs = [entries |-> t, unreadable |-> u,
                     tracked |-> t \cap TrackedCandidates,
                     git_ignore_rules |-> rc.git_ignore_rules,
                     git_exclude_rules |-> rc.git_exclude_rules,
                     git_global_rules |-> rc.git_global_rules,
                     cwd_gitignore |-> rc.cwd_gitignore,
                     cwd_preludeignore |-> rc.cwd_preludeignore]
    /\ args \in [git_only : BOOLEAN, case_sensitive : BOOLEAN,
                 output_file : {"None", "Some"}]
    /\ pc = "canonicalize"
    /\ walker = NewWalkBuilder
    /\ all_entries = <<>>
    /\ filtered_entries = <<>>
    /\ ignored_files = <<>>
    /\ files = <<>>
    /\ tree = <<>>
    /\ concatenated = <<>>
    /\ prompt = NoText
    /\ out_file = [state |-> "old", text |-> NoText]
    /\ clipboard = [state |-> "old", text |-> NoText]
    /\ clip_sets = 0
    /\ result = "running"

Next ==
    \/ Canonicalize
    \/ ConfigureWalker
    \/ WalkAll
    \/ WalkFiltered
    \/ Reconcile
    \/ Collect
    \/ SortFiles
    \/ BuildTree
    \/ ReadFiles
    \/ BuildPrompt
    \/ SaveToFile
    \/ CopyToClipboard
    \/ Finish

Spec == Init /\ [][Next]_vars

(***************************************************************************)
(* Where a run stands.                                                     *)
(***************************************************************************)
PostOutput   == pc = "exit" /\ result \in {"ok", "err_write", "panic"}
Collected    == pc \in {"sort", "build_tree", "read", "format", "save", "copy",
                        "finish"} \/ PostOutput
Sorted       == pc \in {"build_tree", "read", "format", "save", "copy",
                        "finish"} \/ PostOutput
TreeBuilt    == pc \in {"read", "format", "save", "copy", "finish"} \/ PostOutput
FilesRead    == pc \in {"format", "save", "copy", "finish"} \/ PostOutput
PromptBuilt  == pc \in {"save", "copy", "finish"} \/ PostOutput

\* the paths of the unfiltered traversal
UnfilteredPaths == WalkSet(UnfilteredWalker)

Prefixes(p) == {SubSeq(p, 1, k) : k \in 1..Len(p)}

LastName(p) == p[Len(p)]

\* the ignore files the loader registered, in registration order
RegisteredFiles ==
    (IF fs.cwd_gitignore.exists THEN <<fs.cwd_gitignore.patterns>> ELSE <<>>)
    \o (IF fs.cwd_preludeignore.exists THEN <<fs.cwd_preludeignore.patterns>> ELSE <<>>)

\* p, or a directory above it, is ignored by the registered ignore files
ExcludedByRegistered(p) ==
    \E q \in Prefixes(p) : MatchExplicit(RegisteredFiles, LastName(q)) = "ignore"

\* p, or a directory above it, is ignored by a git rule source
ExcludedByGit(p) ==
    \E q \in Prefixes(p) :
        \E rules \in {fs.git_ignore_rules, fs.git_exclude_rules, fs.git_global_rules} :
            MatchRules(rules, LastName(q), ~args.case_sensitive) = "ignore"

\* p before q, component by component
PathLess(p, q) ==
    \E k \in 0..Len(p) :
        /\ k <= Len(q)
        /\ \A i \in 1..k : p[i] = q[i]
        /\ \/ k = Len(p) /\ k < Len(q)
           \/ k < Len(p) /\ k < Len(q) /\ CmpBytes(p[k + 1], q[k + 1]) < 0

\* x before y, byte by byte
BytesLess(x, y) == CmpBytes(x, y) < 0

\* the k-th smallest element of a set of numbers
Kth(S, k) == CHOOSE i \in S : Cardinality({j \in S : j < i}) = k - 1

\* the positions of the files that can be read
ReadablePositions == {i \in 1..Len(files) : ReadOk(files[i])}

\* the positions of the files whose path is valid UTF-8
Utf8Positions == {i \in 1..Len(files) : ToStrIsSome(files[i])}

(***************************************************************************)
(* C1: filter correctness.                                                 *)
(***************************************************************************)
\* C1: every path of the unfiltered traversal is in the file list exactly when
\* it is a regular file that no registered ignore rule excludes and, only when
\* -g is set, no git rule excludes.
C1_FilterCorrectness ==
    Collected =>
        \A p \in UnfilteredPaths :
            (p \in Range(files)) <=>
                /\ IsFile(p)
                /\ ~ExcludedByRegistered(p)
                /\ (args.git_only => ~ExcludedByGit(p))

(***************************************************************************)
(* C2: reconciliation completeness.                                        *)
(***************************************************************************)
\* C2: after reconciliation and collection, ignored_files and files are
\* disjoint and together hold exactly the regular files of the unfiltered
\* traversal.
C2_ReconciliationComplete ==
    Collected =>
        /\ Range(ignored_files) \cap Range(files) = {}
        /\ Range(ignored_files) \cup Range(files)
               = {p \in UnfilteredPaths : IsFile(p)}

(***************************************************************************)
(* C3: traversal-entry error isolation.                                    *)
(***************************************************************************)
\* C3: an error of one directory entry does not end the run: a run that ends
\* without a prompt ended because the root could not be resolved.
C3_EntryErrorIsolated ==
    (pc = "exit" /\ prompt = NoText) => result = "err_root"

(***************************************************************************)
(* C4: sort order.                                                         *)
(***************************************************************************)
\* C4 as stated: the file list is strictly ascending in the byte order of the
\* whole path strings, separator included.
C4_StringOrder ==
    Sorted =>
        \A i, j \in 1..Len(files) :
            i < j => BytesLess(PathBytes(files[i]), PathBytes(files[j]))

\* C4 amended: the file list is strictly ascending in the order that compares
\* paths component by component, hence without duplicates.
C4_ComponentOrder ==
    Sorted =>
        \A i, j \in 1..Len(files) : i < j => PathLess(files[i], files[j])

\* C4 witness: a sorted list where the two orders differ ("a/b" before "a.t")
C4_Witness ==
    /\ pc = "build_tree"
    /\ files = << <<N_a, N_b>>, <<N_at>> >>

(***************************************************************************)
(* C5: git-only isolation.                                                 *)
(***************************************************************************)
\* C5: with a tracked a.t and an untracked b and no ignore rule, -g gives the
\* file list {a.t} and no -g gives {a.t, b}.
C5_GitOnlyIsolation ==
    ( /\ Collected
      /\ fs.entries = {<<N_at>>, <<N_b>>}
      /\ fs.tracked = {<<N_at>>}
      /\ fs.git_ignore_rules = <<>> /\ fs.git_exclude_rules = <<>>
      /\ fs.git_global_rules = <<>>
      /\ ~fs.cwd_gitignore.exists /\ ~fs.cwd_preludeignore.exists )
    => Range(files) = (IF args.git_only THEN {<<N_at>>} ELSE {<<N_at>>, <<N_b>>})

(***************************************************************************)
(* C6: output exclusivity.                                                 *)
(***************************************************************************)
\* C6: never both sinks; with -F the clipboard is never touched, also after a
\* failed write, and a successful run leaves the prompt in the file; without
\* -F the file is never touched and the clipboard is set at most once, to the
\* prompt.
C6_OutputExclusivity ==
    /\ ~(out_file.state # "old" /\ clipboard.state # "old")
    /\ args.output_file = "Some" =>
          /\ clipboard.state = "old" /\ clip_sets = 0
          /\ result = "ok" => out_file = [state |-> "written", text |-> prompt]
    /\ args.output_file = "None" =>
          /\ out_file.state = "old"
          /\ clip_sets <= 1
          /\ clipboard.state = "set" => clipboard.text = prompt /\ clip_sets = 1

\* C6 witness: a run with -F that wrote a prompt with a section to the file
C6_Witness ==
    /\ result = "ok"
    /\ args.output_file = "Some"
    /\ out_file.state = "written"
    /\ Len(out_file.text.concatenated) >= 1

(***************************************************************************)
(* C7: partial-failure tolerance.                                          *)
(***************************************************************************)
\* C7: once the files are read, the sections are those of the files that could
\* be read, one each, in the order of the sorted file list; a failed read has
\* no section and does not end the run.
C7_PartialFailureTolerance ==
    FilesRead =>
        /\ Len(concatenated) = Cardinality(ReadablePositions)
        /\ \A k \in 1..Len(concatenated) :
              /\ concatenated[k].content = files[Kth(ReadablePositions, k)]
              /\ concatenated[k].header = Display(concatenated[k].content)
        /\ \A k \in 1..Len(concatenated) : concatenated[k].content \notin fs.unreadable

\* C7 witness: a successful run in which a read failed and another did not
C7_Witness ==
    /\ result = "ok"
    /\ \E i \in 1..Len(files) : ~ReadOk(files[i])
    /\ Len(prompt.concatenated) >= 1

(***************************************************************************)
(* C8: determinism.                                                        *)
(***************************************************************************)
\* the regular files the filtered walk yields, whatever the order
ExpectedFileSet == {p \in WalkSet(ConfiguredWalker) : IsFile(p)}

\* the one ascending arrangement of the expected files
ExpectedFiles ==
    CHOOSE s \in [1..Cardinality(ExpectedFileSet) -> ExpectedFileSet] :
        \A i, j \in 1..Cardinality(ExpectedFileSet) : i < j => PathLess(s[i], s[j])

\* C8: the file list and the prompt are determined by the tree, the file
\* contents and the flags; the enumeration orders of the walks do not show.
C8_Determinism ==
    /\ Sorted => files = ExpectedFiles
    /\ PromptBuilt =>
          prompt = FormatPrompt(build_tree(ExpectedFiles), ReadAll(ExpectedFiles))

\* C8 witness: a finished run over at least two files, reached from either
\* enumeration order
C8_Witness ==
    /\ result = "ok"
    /\ Len(files) >= 2
    /\ Len(prompt.tree) >= 3

(***************************************************************************)
(* C9: clipboard failure.                                                  *)
(***************************************************************************)
\* C9: in clipboard mode a run that built its prompt ends in success, whatever
\* the clipboard does.
C9_ClipboardFailureNonFatal ==
    (args.output_file = "None" /\ pc = "exit" /\ PromptBuilt) => result = "ok"

(***************************************************************************)
(* C10: the tree and the sections.                                         *)
(***************************************************************************)
\* the path a tree line lists
LinePath(line) == SubSeq(line, Len(TreePrefix) + 1, Len(line))

\* the paths the tree lists, in order
TreePaths == [k \in 1..(Len(tree) - 1) |-> LinePath(tree[k + 1])]

\* s is a subsequence of t
IsSubsequence(s, t) ==
    \E f \in [1..Len(s) -> 1..Len(t)] :
        /\ \A i, j \in 1..Len(s) : i < j => f[i] < f[j]
        /\ \A i \in 1..Len(s) : t[f[i]] = s[i]

\* C10 as stated: the tree lists every path of the file list once, in order,
\* and the paths of the sections are a subsequence of the tree's paths.
C10_TreeListsEveryFile ==
    /\ TreeBuilt =>
          /\ Len(tree) = Len(files) + 1
          /\ tree[1] = TreeDot
          /\ \A i \in 1..Len(files) : tree[i + 1] = TreePrefix \o PathBytes(files[i])
    /\ FilesRead =>
          IsSubsequence([k \in 1..Len(concatenated) |->
                             PathBytes(concatenated[k].content)], TreePaths)

\* the sections whose path is valid UTF-8
Utf8Sections == {k \in 1..Len(concatenated) : ToStrIsSome(concatenated[k].content)}

\* C10 amended: the tree lists every path of the file list that is valid UTF-8
\* once, in order, whatever the reads do; the paths of the sections with a
\* valid UTF-8 path are a subsequence of the tree's paths; a file with such a
\* path whose read fails is in the tree and has no section.
C10_TreeListsUtf8Files ==
    /\ TreeBuilt =>
          /\ Len(tree) = Cardinality(Utf8Positions) + 1
          /\ tree[1] = TreeDot
          /\ \A k \in 1..Cardinality(Utf8Positions) :
                tree[k + 1] = TreePrefix \o PathBytes(files[Kth(Utf8Positions, k)])
    /\ FilesRead =>
          /\ IsSubsequence([k \in 1..Cardinality(Utf8Sections) |->
                                PathBytes(concatenated[Kth(Utf8Sections, k)].content)],
                           TreePaths)
          /\ \A i \in Utf8Positions :
                ~ReadOk(files[i]) =>
                    /\ \E k \in 1..Len(TreePaths) : TreePaths[k] = PathBytes(files[i])
                    /\ \A k \in 1..Len(concatenated) : concatenated[k].content # files[i]

\* C10 witness: the files are read, one with a valid UTF-8 path failed and is
\* in the tree, another has a section
C10_Witness ==
    /\ pc = "format"
    /\ \E i \in Utf8Positions : ~ReadOk(files[i])
    /\ Len(concatenated) >= 1
    /\ Len(tree) >= 3

====
